---- MODULE Spec2Model ----
(***************************************************************************)
(* A model of amps/__init__.py: the Action / Endpoint one-shot executors,  *)
(* the long-lived Service runtime, the Logger and the two erlport          *)
(* primitives (blocking call, fire-and-forget cast) they emit through.     *)
(*                                                                         *)
(* Python values are tagged tuples (PyStr, PyInt, PyBool, PyNone, PyDict); *)
(* a dict object held in a variable is a TLA+ function from its keys to    *)
(* tagged values, so `k in d` is k \in DOMAIN d and `del d[k]` restricts   *)
(* the domain.  JSON text is a separate tagged form (json_dumps /          *)
(* json_loads convert between the two).                                    *)
(***************************************************************************)
EXTENDS Integers, Sequences, FiniteSets, TLC

VARIABLES
    svc,      \* the Service instance (its attributes), or the unconstructed marker
    issued,   \* ids returned so far by Util.get_id
    host,     \* every call / cast emitted to the host, in emission order
    th,       \* per dispatch thread: position in __receive__ and its local objects
    ndisp,    \* number of __receive__ dispatches started
    act,      \* the Action / Endpoint instance and the outcome of its __run__
    bld       \* the dict objects the Result builders are handed, and their calls

vars == <<svc, issued, host, th, ndisp, act, bld>>

----------------------------------------------------------------------------
(* Bounds of the model *)

MaxIds == 2        \* ids Util.get_id may hand out in one run
MaxDispatch == 1   \* __receive__ dispatches the host starts in one run
MaxLogs == 1       \* log calls a handler makes in one dispatch
MaxCalls == 2      \* calls of the static Result builders in one run

----------------------------------------------------------------------------
(* Python values *)

PyStr(s) == <<"str", s>>
PyInt(n) == <<"int", n>>
PyBool(b) == <<"bool", b>>
PyNone == <<"NoneType">>
PyDict(f) == <<"dict", f>>
Atom(a) == <<"atom", a>>

EmptyDict == <<>>

\* bool(v) as `if v:` evaluates it
Truthy(v) ==
    CASE v[1] = "str" -> v[2] # ""
      [] v[1] = "int" -> v[2] # 0
      [] v[1] = "bool" -> v[2]
      [] v[1] = "NoneType" -> FALSE
      [] v[1] = "dict" -> DOMAIN v[2] # {}
      [] OTHER -> TRUE

\* {**a, **b}
Merge(a, b) ==
    [k \in (DOMAIN a) \cup (DOMAIN b) |-> IF k \in DOMAIN b THEN b[k] ELSE a[k]]

\* d[k] = v
Put(d, k, v) == [x \in (DOMAIN d) \cup {k} |-> IF x = k THEN v ELSE d[x]]

\* del d[k]  (the caller has checked k in d)
Del(d, k) == [x \in (DOMAIN d) \ {k} |-> d[x]]

\* d.get(k)
Get(d, k) == IF k \in DOMAIN d THEN d[k] ELSE PyNone

(* Exceptions: a type and the argument it was raised with *)
Exc(type, arg) == [type |-> type, arg |-> arg]
NoExc == [type |-> "none", arg |-> ""]

\* str(e): a KeyError shows the repr of the key, an OSError the errno text,
\* any other Exception its message
str_exc(e) ==
    CASE e.type = "KeyError" -> "'" \o e.arg \o "'"
      [] e.type = "FileNotFoundError" ->
             "[Errno 2] No such file or directory: '" \o e.arg \o "'"
      [] OTHER -> e.arg

----------------------------------------------------------------------------
(* json *)

JsonMalformed == <<"malformed">>

RECURSIVE json_dumps(_)
json_dumps(v) ==
    CASE v[1] = "str" -> <<"string", v[2]>>
      [] v[1] = "int" -> <<"number", v[2]>>
      [] v[1] = "bool" -> IF v[2] THEN <<"true">> ELSE <<"false">>
      [] v[1] = "NoneType" -> <<"null">>
      [] v[1] = "dict" -> <<"object", [k \in DOMAIN v[2] |-> json_dumps(v[2][k])]>>

RECURSIVE json_value(_)
json_value(t) ==
    CASE t[1] = "string" -> PyStr(t[2])
      [] t[1] = "number" -> PyInt(t[2])
      [] t[1] = "true" -> PyBool(TRUE)
      [] t[1] = "false" -> PyBool(FALSE)
      [] t[1] = "null" -> PyNone
      [] t[1] = "object" -> PyDict([k \in DOMAIN t[2] |-> json_value(t[2][k])])

\* json.loads(text): the value, or a JSONDecodeError
json_loads(t) ==
    IF t = JsonMalformed
    THEN [exc |-> Exc("JSONDecodeError", "Expecting value: line 1 column 1 (char 0)"),
          value |-> PyNone]
    ELSE [exc |-> NoExc, value |-> json_value(t)]

----------------------------------------------------------------------------
(* The file system seen by os.path.getsize / os.path.basename *)

Files == [p \in {"/x", "/tmp/out.txt"} |-> IF p = "/x" THEN 7 ELSE 42]

os_path_getsize(p) ==
    IF p \in DOMAIN Files
    THEN [exc |-> NoExc, value |-> Files[p]]
    ELSE [exc |-> Exc("FileNotFoundError", p), value |-> 0]

os_path_basename(p) ==
    CASE p = "/x" -> "x"
      [] p = "/tmp/out.txt" -> "out.txt"
      [] p = "/gone" -> "gone"
      [] OTHER -> p

----------------------------------------------------------------------------
(* Util.get_id: uuid4 rendered as 32 hex digits.  The 128 random bits are   *)
(* modelled as a draw from the ids not handed out before.                   *)

Id(n) == "uuid" \o ToString(n)
IdPool == {Id(n) : n \in 1..MaxIds}
get_id == IdPool \ issued

----------------------------------------------------------------------------
(* erlport: call(module, function, args) blocks until the host answers and  *)
(* raises when the host fails; cast(pid, term) returns at once.  A host     *)
(* emission records which primitive was used, its target and its payload;   *)
(* reply is "pending" | "ok" | "error" for a call and "none" for a cast;    *)
(* by is the dispatch thread that emitted it.                               *)

MFA(m, f) == <<"mfa", m, f>>
Pid(n) == <<"pid", n>>

call(t, module, function, args) ==
    [op |-> "call", target |-> MFA(module, function), payload |-> args,
     reply |-> "pending", by |-> t]

cast(t, pid, term) ==
    [op |-> "cast", target |-> pid, payload |-> term, reply |-> "none", by |-> t]

CallError == Exc("CallError", "host call failed")

----------------------------------------------------------------------------
(* Logger *)

\* Logger.__init__(sid="", service=None)
Logger(sid, service) == [sid |-> sid, service |-> service]

\* Service.__log__: a cast to the log handle
Service__log__(t, s, level, msg) ==
    cast(t, s.lhandler, <<Atom("log"), <<level, msg>>>>)

\* a variant that ignores the service context and always takes the global call
Logger_logGlobalOnly(t, s, logger, level, message) ==
    call(t, "Elixir.Amps.PyProcess", "log",
         <<Atom(level), PyStr(message), << <<Atom("sid"), logger.sid>> >> >>)

\* Logger.log: through the owning service when there is one, otherwise a
\* blocking call to the global entry point with the (sid, <sid>) pair
Logger_log(t, s, logger, level, message) ==
    IF logger.service
    THEN Service__log__(t, s, Atom(level), PyStr(message))
    ELSE call(t, "Elixir.Amps.PyProcess", "log",
              <<Atom(level), PyStr(message), << <<Atom("sid"), logger.sid>> >> >>)

\* Logger.info / debug / warning / error: log with the level fixed
Logger_info(t, s, logger, message) == Logger_log(t, s, logger, "info", message)
Logger_debug(t, s, logger, message) == Logger_log(t, s, logger, "debug", message)
Logger_warning(t, s, logger, message) == Logger_log(t, s, logger, "warning", message)
Logger_error(t, s, logger, message) == Logger_log(t, s, logger, "error", message)

Levels == {"info", "debug", "warning", "error"}

\* the wrapper a caller picks by level name
Logger_wrapper(t, s, logger, level, message) ==
    CASE level = "info" -> Logger_info(t, s, logger, message)
      [] level = "debug" -> Logger_debug(t, s, logger, message)
      [] level = "warning" -> Logger_warning(t, s, logger, message)
      [] level = "error" -> Logger_error(t, s, logger, message)

----------------------------------------------------------------------------
(* Service *)

NoService == [state |-> "none"]

\* a variant in which send_message records the send in the service's parms
SelfAfterSendMarksParms(self, method) ==
    IF method = "send_message"
    THEN [self EXCEPT !.parms = Put(@, "sent", PyBool(TRUE))]
    ELSE self

\* the attributes of an instance after one of the library's methods ran on it:
\* __receive__, __log__ / Logger.log, send_message, send_new and __run__ read
\* attributes of self and assign none
SelfAfter(self, method) == self

\* what the host passes to Service.__init__
ServiceParms ==
    { json_dumps(PyDict([name |-> PyStr("svc1"),
                         config |-> PyDict([topic |-> PyStr("in")])])),
      json_dumps(PyDict([config |-> PyDict(EmptyDict)])) }
ServiceSysparms == json_dumps(PyDict([tempdir |-> PyStr("/tmp")]))
Envs == {"prod", "test"}

\* a variant that runs initialize() before the host handles are stored
ServiceInitOrderEarly ==
    <<"parms", "sysparms", "config", "env", "logger", "initialize",
      "__pid__", "__handler__", "__lhandler__">>

\* the statements of Service.__init__ in program order (lines 463-471)
ServiceInitOrder ==
    <<"parms", "sysparms", "config", "env", "logger",
      "__pid__", "__handler__", "__lhandler__", "initialize">>

\* Service.__init__: the attributes it stores; initialized counts the runs of
\* initialize() and initSaw is the set of attributes stored when it ran
Service__init__(parms, sysparms, pid, env, handler, lhandler) ==
    LET p == json_loads(parms).value[2]
        order == ServiceInitOrder
        runs == {i \in 1..Len(order) : order[i] = "initialize"}
    IN
    [state |-> "ready",
     parms |-> p,
     sysparms |-> json_loads(sysparms).value[2],
     config |-> p["config"],
     env |-> PyStr(env),
     logger |-> Logger(PyStr(""), TRUE),
     pid |-> pid, handler |-> handler, lhandler |-> lhandler,
     initialized |-> Cardinality(runs),
     initSaw |-> {order[j] : j \in {k \in 1..Len(order) : \A i \in runs : k < i}}]

\* envelopes the host dispatches to __receive__
Inbound ==
    { json_dumps(PyDict([msgid |-> PyStr("A"), sid |-> PyStr("s1"),
                         fpath |-> PyStr("/x"), fsize |-> PyInt(7),
                         partner |-> PyStr("acme")])),
      json_dumps(PyDict([msgid |-> PyStr("B"), sid |-> PyStr("s2"),
                         data |-> PyStr("hello"), fsize |-> PyInt(5)])),
      json_dumps(PyDict([msgid |-> PyStr("A"), data |-> PyStr("hi"),
                         fsize |-> PyInt(2)])),
      JsonMalformed }

\* overlays a handler passes to send_message
Overlays ==
    { [data |-> PyStr("hello")],
      [fpath |-> PyStr("/tmp/out.txt")],
      [fpath |-> PyStr("/gone")],
      [data |-> PyStr("hi"), fpath |-> PyStr("/tmp/out.txt")],
      [partner |-> PyStr("zeta")],
      [data |-> PyStr("hi"), parent |-> PyStr("P"), msgid |-> PyStr("M")] }

\* envelopes a handler passes to send_new
NewMsgs ==
    { [data |-> PyStr("hello")],
      [fpath |-> PyStr("/tmp/out.txt")],
      [fpath |-> PyStr("/gone")],
      [partner |-> PyStr("zeta")],
      [data |-> PyStr("hi"), parent |-> PyStr("P"), fsize |-> PyInt(99)] }

\* what a user handle_message returns (the base class body returns None) or raises
HandlerReturns == {PyNone, PyStr("done")}
HandlerFaults == {Exc("Exception", "timeout"), Exc("KeyError", "k")}

\* the record of a thread's latest send: the operation, the original as it was
\* when the call began, the overlay / new envelope as the caller passed it, the
\* id drawn, how the call ended, the index of its emission in host (0: none),
\* the length of host and the ids handed out when the call began, and, for a
\* call that raised, whether the handler had it in a try block that caught it
NoSend ==
    [op |-> "none", orig |-> EmptyDict, arg |-> EmptyDict, id |-> "",
     outcome |-> "none", exc |-> NoExc, ix |-> 0, before |-> 0, prior |-> {},
     caught |-> FALSE]

NoOutcome == [kind |-> "none", value |-> PyNone, exc |-> NoExc]

\* the record of a thread's latest log call made by the handler: the Logger
\* used, the level and text, how the call ended, the index of its emission
\* in host and the length of host when the call began
NoLog ==
    [logger |-> Logger(PyStr(""), FALSE), level |-> "", message |-> "",
     outcome |-> "none", ix |-> 0, before |-> 0]

\* a dispatch thread: its position, the envelope object handle_message works
\* on (msg) and the envelope as it was received (inmsg), the Logger passed to
\* handle_message, the value __receive__ returned, the number of
\* handle_message invocations and of handler log calls, how handle_message
\* ended, and the latest send and log call
IdleThread ==
    [pc |-> "idle", msg |-> EmptyDict, inmsg |-> EmptyDict,
     hlogger |-> Logger(PyStr(""), FALSE), ret |-> <<>>, hm |-> 0, nlogs |-> 0,
     hout |-> NoOutcome, send |-> NoSend, log |-> NoLog]

Threads == {1}

NoAction == [state |-> "none"]

\* the dict a caller builds once and passes as `meta` to several calls
CallerMeta == [partner |-> PyStr("acme")]

\* before any builder call: the default `meta` objects of send_file and
\* send_data, created once when the functions are defined (lines 270, 298),
\* and the caller's own dict
NoBuilderState ==
    [shared |-> [b \in {"send_file", "send_data"} |-> EmptyDict],
     held |-> CallerMeta,
     calls |-> <<>>]

Init ==
    /\ svc = NoService
    /\ issued = {}
    /\ host = <<>>
    /\ th = [t \in Threads |-> IdleThread]
    /\ ndisp = 0
    /\ act = NoAction
    /\ bld = NoBuilderState

\* the host constructs the service
ServiceInit(parms, env) ==
    /\ svc.state = "none"
    /\ svc' = Service__init__(parms, ServiceSysparms, Pid(1), env, Pid(2), Pid(3))
    /\ UNCHANGED <<issued, host, th, ndisp, act, bld>>

\* faults a user initialize() may raise
InitFaults == {Exc("Exception", "port in use")}

\* the host constructs the service and the user's initialize() raises: the
\* exception leaves __init__ and the host gets no instance
ServiceInitRaises(parms, env, e) ==
    /\ svc.state = "none"
    /\ svc' = [Service__init__(parms, ServiceSysparms, Pid(1), env, Pid(2), Pid(3))
                 EXCEPT !.state = "init_raised"]
    /\ UNCHANGED <<issued, host, th, ndisp, act, bld>>

----------------------------------------------------------------------------
(* Service.__receive__ *)

\* (Atom(b'ok'), resp)
ReceiveOk(resp) == <<Atom("ok"), resp>>

\* a variant that reports the exception's type name instead of its text
ReceiveErrorTypeName(e) == <<Atom("error"), PyStr(e.type)>>

\* (Atom(b'error'), str(e))
ReceiveError(e) == <<Atom("error"), PyStr(str_exc(e))>>

\* lines 475-479 up to the log emission: the parsed envelope, its Logger and
\* the text of the informational line, or the first exception raised
ReceivePrologue(s, data) ==
    LET r == json_loads(data) IN
    IF r.exc # NoExc
    THEN [exc |-> r.exc, msg |-> EmptyDict, logger |-> Logger(PyStr(""), FALSE), line |-> ""]
    ELSE LET msg == r.value[2] IN
         IF "sid" \notin DOMAIN msg
         THEN [exc |-> Exc("KeyError", "sid"), msg |-> msg,
               logger |-> Logger(PyStr(""), FALSE), line |-> ""]
         ELSE IF "name" \notin DOMAIN s.parms
         THEN [exc |-> Exc("KeyError", "name"), msg |-> msg,
               logger |-> Logger(msg["sid"], FALSE), line |-> ""]
         ELSE [exc |-> NoExc, msg |-> msg, logger |-> Logger(msg["sid"], FALSE),
               line |-> "Message received by Custom Service " \o s.parms["name"][2]]

\* the dispatch of thread t ends with the tagged pair r
Finish(thr, r) == [thr EXCEPT !.pc = "done", !.ret = r]

\* __receive__(data) on thread t, up to its blocking log call
ReceiveStep(t, data) ==
    /\ svc.state = "ready"
    /\ th[t].pc \in {"idle", "done"}
    /\ ndisp' = ndisp + 1
    /\ LET r == ReceivePrologue(svc, data) IN
       IF r.exc # NoExc
       THEN /\ th' = [th EXCEPT ![t] = Finish([IdleThread EXCEPT !.msg = r.msg,
                                                                  !.inmsg = r.msg],
                                               ReceiveError(r.exc))]
            /\ host' = host
       ELSE /\ th' = [th EXCEPT ![t] = [IdleThread EXCEPT !.pc = "log_call", !.msg = r.msg,
                                                           !.inmsg = r.msg,
                                                           !.hlogger = r.logger]]
            /\ host' = Append(host, Logger_log(t, svc, r.logger, "info", r.line))
    /\ svc' = SelfAfter(svc, "__receive__")
    /\ UNCHANGED <<issued, act, bld>>

\* the host dispatches an envelope, one dispatch after the other
Receive(t, data) ==
    /\ ndisp < MaxDispatch
    /\ ReceiveStep(t, data)

\* a variant in which __receive__ keeps the envelope on the instance, so that
\* a handler sees the envelope of whichever dispatch stored it last
HandlerMsgOfLastStarted(t) ==
    LET started == {u \in DOMAIN th : th[u].pc # "idle"}
        last == CHOOSE u \in started : \A v \in started : v <= u
    IN th[last].msg

\* the envelope handle_message of thread t passes on as `msg`: the dict that
\* its own __receive__ frame parsed (line 475) and handed to it (line 479)
HandlerMsg(t) == th[t].msg

\* index of the call thread t is blocked in
PendingIx(t) ==
    CHOOSE i \in 1..Len(host) : host[i].by = t /\ host[i].reply = "pending"

\* the host answers the log call: handle_message is invoked, or the failed
\* call raises inside the try block
LogCallReturn(t, ok) ==
    /\ th[t].pc = "log_call"
    /\ host' = [host EXCEPT ![PendingIx(t)].reply = IF ok THEN "ok" ELSE "error"]
    /\ th' = [th EXCEPT ![t] =
                IF ok
                THEN [@ EXCEPT !.pc = "handling", !.hm = @ + 1]
                ELSE Finish(@, ReceiveError(CallError))]
    /\ svc' = SelfAfter(svc, "__receive__")
    /\ UNCHANGED <<issued, ndisp, act, bld>>

\* handle_message returns v
HandlerReturn(t, v) ==
    /\ th[t].pc = "handling"
    /\ th' = [th EXCEPT ![t] =
                Finish([@ EXCEPT !.hout = [kind |-> "returned", value |-> v, exc |-> NoExc]],
                       ReceiveOk(v))]
    /\ svc' = SelfAfter(svc, "__receive__")
    /\ UNCHANGED <<issued, host, ndisp, act, bld>>

\* handle_message raises e
HandlerRaise(t, e) ==
    /\ th[t].pc = "handling"
    /\ th' = [th EXCEPT ![t] =
                Finish([@ EXCEPT !.hout = [kind |-> "raised", value |-> PyNone, exc |-> e]],
                       ReceiveError(e))]
    /\ svc' = SelfAfter(svc, "__receive__")
    /\ UNCHANGED <<issued, host, ndisp, act, bld>>

\* an exception e leaves a send made inside handle_message: the handler
\* catches it and goes on, or it leaves handle_message too
SendRaised(thr, e, caught) ==
    IF caught
    THEN [thr EXCEPT !.pc = "handling"]
    ELSE Finish([thr EXCEPT !.hout = [kind |-> "raised", value |-> PyNone, exc |-> e]],
                ReceiveError(e))

----------------------------------------------------------------------------
(* Logging from inside handle_message *)

UserLine == "processing"

\* what a log call does after emitting m: the unscoped Logger's call blocks
\* until the host answers, the service Logger's cast returns at once
AfterLogEmission(thr, m) ==
    IF m.op = "call"
    THEN [thr EXCEPT !.pc = "ulog_call"]
    ELSE [thr EXCEPT !.log.outcome = "returned"]

\* the handler logs at some level, through self.logger (scoped) or through
\* the Logger it was passed
HandlerLog(t, scoped, level) ==
    /\ th[t].pc = "handling"
    /\ th[t].nlogs < MaxLogs
    /\ LET lg == IF scoped THEN svc.logger ELSE th[t].hlogger
           m == Logger_wrapper(t, svc, lg, level, UserLine)
           rec == [logger |-> lg, level |-> level, message |-> UserLine,
                   outcome |-> "pending", ix |-> Len(host) + 1, before |-> Len(host)]
       IN
       /\ host' = Append(host, m)
       /\ th' = [th EXCEPT ![t] =
                   AfterLogEmission([@ EXCEPT !.nlogs = @ + 1, !.log = rec], m)]
    /\ svc' = SelfAfter(svc, "log")
    /\ UNCHANGED <<issued, ndisp, act, bld>>

\* the host answers the handler's log call: Logger.log returns, or the failed
\* call raises out of it into the handler
HandlerLogReturn(t, ok, caught) ==
    /\ th[t].pc = "ulog_call"
    /\ host' = [host EXCEPT ![PendingIx(t)].reply = IF ok THEN "ok" ELSE "error"]
    /\ th' = [th EXCEPT ![t] =
                IF ok
                THEN [@ EXCEPT !.pc = "handling", !.log.outcome = "returned"]
                ELSE SendRaised([@ EXCEPT !.log.outcome = "raised"], CallError, caught)]
    /\ svc' = SelfAfter(svc, "log")
    /\ UNCHANGED <<issued, ndisp, act, bld>>

----------------------------------------------------------------------------
(* Service.send_message *)

\* len(s) of a str
PyLen(v) == Len(v[2])

\* a variant that stamps the new id on the original instead of the overlay
SendMessageBodyRestampsOriginal(msg, newmsg, msgid) ==
    [exc |-> NoExc,
     msg |-> Put(msg, "msgid", PyStr(msgid)),
     newmsg |-> Put(newmsg, "parent", msg["msgid"])]

\* lines 531-539: the original and the overlay as the statements leave them,
\* and the exception that stopped them, if any
SendMessageBody(msg, newmsg, msgid) ==
    IF "msgid" \notin DOMAIN msg
    THEN [exc |-> Exc("KeyError", "msgid"), msg |-> msg, newmsg |-> newmsg]
    ELSE
    LET n1 == Put(Put(newmsg, "parent", msg["msgid"]), "msgid", PyStr(msgid)) IN
    IF "data" \in DOMAIN n1
    THEN IF "fpath" \notin DOMAIN msg
         THEN [exc |-> Exc("KeyError", "fpath"), msg |-> msg, newmsg |-> n1]
         ELSE [exc |-> NoExc, msg |-> Del(msg, "fpath"),
               newmsg |-> Put(n1, "fsize", PyInt(PyLen(n1["data"])))]
    ELSE IF "fpath" \in DOMAIN n1
    THEN IF "data" \notin DOMAIN msg
         THEN [exc |-> Exc("KeyError", "data"), msg |-> msg, newmsg |-> n1]
         ELSE LET sz == os_path_getsize(n1["fpath"][2]) IN
              IF sz.exc # NoExc
              THEN [exc |-> sz.exc, msg |-> Del(msg, "data"), newmsg |-> n1]
              ELSE [exc |-> NoExc, msg |-> Del(msg, "data"),
                    newmsg |-> Put(n1, "fsize", PyInt(sz.value))]
    ELSE [exc |-> NoExc, msg |-> msg, newmsg |-> n1]

\* a variant that merges the other way round: {**newmsg, **msg}
MergedEnvelopeOriginalWins(msg, newmsg) == Merge(newmsg, msg)

\* a variant that sends the overlay alone
MergedEnvelopeOverlayOnly(msg, newmsg) == newmsg

\* {**msg, **newmsg}
MergedEnvelope(msg, newmsg) == Merge(msg, newmsg)

\* a variant that sends through __send__: a cast to the process handle
SendMessageEmissionCast(t, s, msg, newmsg) ==
    cast(t, s.pid,
         <<json_dumps(PyDict(Merge(msg, newmsg))), json_dumps(PyDict(s.parms)), s.env>>)

\* lines 540-541
SendMessageEmission(t, s, msg, newmsg) ==
    call(t, "Elixir.Amps.PyProcess", "send_message",
         <<json_dumps(PyDict(MergedEnvelope(msg, newmsg))),
           json_dumps(PyDict(s.parms)), s.env>>)

\* what a send does after emitting m: a call blocks the thread until the host
\* answers, a cast lets it return at once
AfterEmission(thr, m, blockedPc) ==
    IF m.op = "call"
    THEN [thr EXCEPT !.pc = blockedPc]
    ELSE [thr EXCEPT !.send.outcome = "returned"]

\* the handler calls self.send_message(msg, newmsg) on the envelope it was given:
\* everything up to the blocking call
SendMessage(t, newmsg, caught) ==
    /\ th[t].pc = "handling"
    /\ \E msgid \in get_id :
         LET r == SendMessageBody(HandlerMsg(t), newmsg, msgid)
             rec == [op |-> "send_message", orig |-> HandlerMsg(t), arg |-> newmsg,
                     id |-> msgid, outcome |-> "pending", exc |-> NoExc,
                     ix |-> 0, before |-> Len(host), prior |-> issued,
                     caught |-> FALSE]
         IN
         /\ issued' = issued \cup {msgid}
         /\ IF r.exc = NoExc
            THEN LET m == SendMessageEmission(t, svc, r.msg, r.newmsg) IN
                 /\ host' = Append(host, m)
                 /\ th' = [th EXCEPT ![t] =
                             AfterEmission([@ EXCEPT !.msg = r.msg,
                                                     !.send = [rec EXCEPT !.ix = Len(host) + 1]],
                                           m, "send_call")]
            ELSE /\ host' = host
                 /\ th' = [th EXCEPT ![t] =
                             SendRaised([@ EXCEPT !.msg = r.msg,
                                                  !.send = [rec EXCEPT !.outcome = "raised",
                                                                       !.exc = r.exc,
                                                                       !.caught = caught]],
                                        r.exc, caught)]
    /\ svc' = SelfAfter(svc, "send_message")
    /\ UNCHANGED <<ndisp, act, bld>>

\* the host answers the send_message call: line 542 returns the id, or the
\* failed call raises out of send_message
SendCallReturn(t, ok, caught) ==
    /\ th[t].pc = "send_call"
    /\ host' = [host EXCEPT ![PendingIx(t)].reply = IF ok THEN "ok" ELSE "error"]
    /\ th' = [th EXCEPT ![t] =
                IF ok
                THEN [@ EXCEPT !.pc = "handling", !.send.outcome = "returned"]
                ELSE SendRaised([@ EXCEPT !.send.outcome = "raised",
                                          !.send.exc = CallError,
                                          !.send.caught = caught],
                                CallError, caught)]
    /\ svc' = SelfAfter(svc, "send_message")
    /\ UNCHANGED <<issued, ndisp, act, bld>>

----------------------------------------------------------------------------
(* Service.send_new *)

\* a variant that leaves a caller-supplied fsize alone
SendNewBodyKeepFsize(newmsg, msgid) ==
    LET n1 == Put(newmsg, "msgid", PyStr(msgid))
        keep == "fsize" \in DOMAIN newmsg
    IN
    IF "data" \in DOMAIN n1
    THEN [exc |-> NoExc,
          newmsg |-> IF keep THEN n1 ELSE Put(n1, "fsize", PyInt(PyLen(n1["data"])))]
    ELSE IF "fpath" \notin DOMAIN n1
    THEN [exc |-> Exc("KeyError", "fpath"), newmsg |-> n1]
    ELSE LET sz == os_path_getsize(n1["fpath"][2]) IN
         IF sz.exc # NoExc
         THEN [exc |-> sz.exc, newmsg |-> n1]
         ELSE [exc |-> NoExc,
               newmsg |-> IF keep THEN n1 ELSE Put(n1, "fsize", PyInt(sz.value))]

\* a variant that sends without sizing the payload, so nothing can raise
SendNewBodyUnsized(newmsg, msgid) ==
    [exc |-> NoExc, newmsg |-> Put(newmsg, "msgid", PyStr(msgid))]

\* lines 568-572: the envelope as the statements leave it, or the exception
SendNewBody(newmsg, msgid) ==
    LET n1 == Put(newmsg, "msgid", PyStr(msgid)) IN
    IF "data" \in DOMAIN n1
    THEN [exc |-> NoExc, newmsg |-> Put(n1, "fsize", PyInt(PyLen(n1["data"])))]
    ELSE IF "fpath" \notin DOMAIN n1
    THEN [exc |-> Exc("KeyError", "fpath"), newmsg |-> n1]
    ELSE LET sz == os_path_getsize(n1["fpath"][2]) IN
         IF sz.exc # NoExc
         THEN [exc |-> sz.exc, newmsg |-> n1]
         ELSE [exc |-> NoExc, newmsg |-> Put(n1, "fsize", PyInt(sz.value))]

\* a variant that waits for the host: a call instead of the cast
SendNewEmissionCall(t, s, newmsg) ==
    call(t, "Elixir.Amps.PyProcess", "send_new",
         <<Atom("new"), json_dumps(PyDict(newmsg))>>)

\* lines 575-576
SendNewEmission(t, s, newmsg) ==
    cast(t, s.handler, <<Atom("new"), json_dumps(PyDict(newmsg))>>)

\* the handler calls self.send_new(newmsg)
SendNew(t, newmsg, caught) ==
    /\ th[t].pc = "handling"
    /\ \E msgid \in get_id :
         LET r == SendNewBody(newmsg, msgid)
             rec == [op |-> "send_new", orig |-> EmptyDict, arg |-> newmsg,
                     id |-> msgid, outcome |-> "pending", exc |-> NoExc,
                     ix |-> 0, before |-> Len(host), prior |-> issued,
                     caught |-> FALSE]
         IN
         /\ issued' = issued \cup {msgid}
         /\ IF r.exc = NoExc
            THEN LET m == SendNewEmission(t, svc, r.newmsg) IN
                 /\ host' = Append(host, m)
                 /\ th' = [th EXCEPT ![t] =
                             AfterEmission([@ EXCEPT !.send = [rec EXCEPT !.ix = Len(host) + 1]],
                                           m, "send_call")]
            ELSE /\ host' = host
                 /\ th' = [th EXCEPT ![t] =
                             SendRaised([@ EXCEPT !.send = [rec EXCEPT !.outcome = "raised",
                                                                       !.exc = r.exc,
                                                                       !.caught = caught]],
                                        r.exc, caught)]
    /\ svc' = SelfAfter(svc, "send_new")
    /\ UNCHANGED <<ndisp, act, bld>>

----------------------------------------------------------------------------
(* Action / Endpoint: the static Result builders *)

Returned(v) == [kind |-> "returned", value |-> v, exc |-> NoExc]
Raised(e) == [kind |-> "raised", value |-> PyNone, exc |-> e]

\* Action.send_async
send_async(status, key, data) ==
    Returned(PyDict([x \in {"status", "async"} |->
                       IF x = "status" THEN status ELSE PyDict([k \in {key} |-> data])]))

\* Action.send_status
send_status(status, reason) ==
    IF Truthy(reason)
    THEN Returned(PyDict([status |-> status, reason |-> reason]))
    ELSE Returned(PyDict([status |-> status]))

\* Action.send_file: os.path.getsize raises when the file is missing
send_file(status, fpath, meta) ==
    LET fname == os_path_basename(fpath[2])
        fsize == os_path_getsize(fpath[2])
    IN IF fsize.exc # NoExc
       THEN Raised(fsize.exc)
       ELSE Returned(PyDict([status |-> status,
                             msg |-> PyDict(Merge([fname |-> PyStr(fname),
                                                   fsize |-> PyInt(fsize.value),
                                                   fpath |-> fpath], meta))]))

\* Action.send_data
send_data(status, data, meta) ==
    Returned(PyDict([status |-> status, msg |-> PyDict(Merge([data |-> data], meta))]))

\* Action.send_error
send_error(reason) ==
    Returned(PyDict([status |-> PyStr("failed"), reason |-> reason]))

\* Endpoint.send_resp_data
send_resp_data(data, code) ==
    Returned(PyDict([status |-> PyStr("completed"),
                     response |-> PyDict([data |-> data, code |-> code])]))

\* Endpoint.send_resp_file
send_resp_file(fpath, code) ==
    Returned(PyDict([status |-> PyStr("completed"),
                     response |-> PyDict([fpath |-> fpath, code |-> code])]))

----------------------------------------------------------------------------
(* Action / Endpoint: construction and __run__ *)

\* the envelopes and parameter maps the host serializes into msgdata
ActionMsgs ==
    { [msgid |-> PyStr("A"), sid |-> PyStr("s1"), data |-> PyStr("hello")],
      [msgid |-> PyStr("B"), fpath |-> PyStr("/x")],
      [msgid |-> PyStr("C"), sid |-> PyStr("s2"), data |-> PyStr("hi"),
       path_params |-> PyDict([id |-> PyStr("7")]),
       query_params |-> PyDict([q |-> PyStr("x")])] }

ActionParms ==
    { [parms |-> PyDict([k |-> PyStr("v")]), use_provider |-> PyBool(TRUE),
       provider |-> PyDict([host |-> PyStr("h")])],
      [parms |-> PyDict(EmptyDict), use_provider |-> PyBool(FALSE)],
      [parms |-> PyDict(EmptyDict)] }

MsgData ==
    { json_dumps(PyDict([msg |-> PyDict(m), parms |-> PyDict(p),
                         sysparms |-> PyDict([tempdir |-> PyStr("/tmp")])]))
        : m \in ActionMsgs, p \in ActionParms }

Classes == {"Action", "Endpoint"}

\* Action.__init__, and Endpoint.__init__ after it: the attributes set, or the
\* exception that aborts construction
Action__init__(cls, msgdata) ==
    LET d == json_loads(msgdata).value[2]
        msg == d["msg"][2]
        parms == d["parms"][2]
        a1 == [msg |-> d["msg"], parms |-> d["parms"], sysparms |-> d["sysparms"],
               extra |-> parms["parms"]]
    IN
    IF "use_provider" \notin DOMAIN parms
    THEN [exc |-> Exc("KeyError", "use_provider"), attrs |-> a1]
    ELSE
    LET a2 == IF Truthy(parms["use_provider"])
              THEN Put(a1, "provider", parms["provider"])
              ELSE a1
        a3 == Put(a2, "logger",
                  IF Truthy(Get(msg, "sid"))
                  THEN Logger(msg["sid"], FALSE)
                  ELSE Logger(PyStr(""), FALSE))
        a4 == IF cls = "Endpoint"
              THEN Put(Put(a3, "path_params", Get(msg, "path_params")),
                       "query_params", Get(msg, "query_params"))
              ELSE a3
    IN [exc |-> NoExc, attrs |-> a4]

\* the base class's action()
DefaultAction == Returned(PyDict([status |-> PyStr("completed")]))

\* what one invocation of a user's action() may do: return a Result made by
\* a builder, or raise
UserOutcomes(cls) ==
    { send_status(PyStr("completed"), PyNone),
      send_status(PyStr("failed"), PyStr("no route")),
      send_error(PyStr("bad input")),
      send_data(PyStr("completed"), PyStr("hello"), [partner |-> PyStr("acme")]),
      send_file(PyStr("completed"), PyStr("/tmp/out.txt"), [partner |-> PyStr("acme")]),
      send_file(PyStr("completed"), PyStr("/gone"), EmptyDict),
      send_async(PyStr("completed"), "reply", PyStr("later")),
      Raised(Exc("Exception", "disk full")),
      Raised(Exc("KeyError", "data")) }
    \cup (IF cls = "Endpoint"
          THEN { send_resp_data(PyStr("not found"), PyInt(404)),
                 send_resp_file(PyStr("/x"), PyInt(200)) }
          ELSE {})

ActionOutcomes(a) ==
    IF a.overridden THEN UserOutcomes(a.cls) ELSE {DefaultAction}

\* a variant that reports a fault in the handlers' status vocabulary
ExcResponseFailed(e) ==
    PyDict([status |-> PyStr("failed"), reason |-> PyStr(str_exc(e))])

\* line 174
ExcResponse(e) == PyDict([error |-> PyBool(TRUE), reason |-> PyStr(str_exc(e))])

\* a variant that invokes action() a second time after a fault
Action__run__Retry(out) ==
    LET response == IF out.kind = "raised"
                    THEN PyDict([error |-> PyBool(TRUE), reason |-> PyStr(str_exc(out.exc))])
                    ELSE out.value
    IN [calls |-> IF out.kind = "raised" THEN 2 ELSE 1, exc |-> NoExc,
        ret |-> json_dumps(response)]

\* Action.__run__ when the invocation of action() ends as `out`: the number of
\* invocations made, the response and the serialized text returned
Action__run__(out) ==
    LET response == IF out.kind = "raised" THEN ExcResponse(out.exc) ELSE out.value
    IN [calls |-> 1, exc |-> NoExc, ret |-> json_dumps(response)]

\* the host constructs an Action or Endpoint subclass instance
ActionInit(cls, overridden, msgdata) ==
    /\ act.state = "none"
    /\ LET r == Action__init__(cls, msgdata) IN
       act' = [state |-> IF r.exc = NoExc THEN "ready" ELSE "init_raised",
               cls |-> cls, overridden |-> overridden, attrs |-> r.attrs,
               exc |-> r.exc, calls |-> 0, aout |-> NoOutcome, ret |-> <<>>]
    /\ UNCHANGED <<svc, issued, host, th, ndisp, bld>>

\* the host calls __run__ on the instance
ActionRun(out) ==
    /\ act.state = "ready"
    /\ out \in ActionOutcomes(act)
    /\ LET r == Action__run__(out) IN
       act' = [act EXCEPT !.state = IF r.exc = NoExc THEN "ran" ELSE "run_raised",
                          !.exc = r.exc, !.calls = @ + r.calls,
                          !.aout = out, !.ret = r.ret,
                          !.attrs = SelfAfter(@, "__run__")]
    /\ UNCHANGED <<svc, issued, host, th, ndisp, bld>>

ActionNext ==
    \/ \E c \in Classes, o \in BOOLEAN, d \in MsgData : ActionInit(c, o, d)
    \/ \E out \in UserOutcomes("Endpoint") \cup {DefaultAction} : ActionRun(out)

ActionSpec == Init /\ [][ActionNext]_vars

----------------------------------------------------------------------------

Next ==
    \/ \E p \in ServiceParms, e \in Envs : ServiceInit(p, e)
    \/ \E p \in ServiceParms, e \in Envs, x \in InitFaults : ServiceInitRaises(p, e, x)
    \/ \E t \in Threads, d \in Inbound : Receive(t, d)
    \/ \E t \in Threads, ok \in BOOLEAN : LogCallReturn(t, ok)
    \/ \E t \in Threads, v \in HandlerReturns : HandlerReturn(t, v)
    \/ \E t \in Threads, e \in HandlerFaults : HandlerRaise(t, e)
    \/ \E t \in Threads, o \in Overlays, c \in BOOLEAN : SendMessage(t, o, c)
    \/ \E t \in Threads, ok \in BOOLEAN, c \in BOOLEAN : SendCallReturn(t, ok, c)
    \/ \E t \in Threads, n \in NewMsgs, c \in BOOLEAN : SendNew(t, n, c)

Spec == Init /\ [][Next]_vars

\* a service whose handlers log, through either Logger, and do not send
LogNext ==
    \/ \E p \in ServiceParms, e \in Envs : ServiceInit(p, e)
    \/ \E p \in ServiceParms, e \in Envs, x \in InitFaults : ServiceInitRaises(p, e, x)
    \/ \E t \in Threads, d \in Inbound : Receive(t, d)
    \/ \E t \in Threads, ok \in BOOLEAN : LogCallReturn(t, ok)
    \/ \E t \in Threads, v \in HandlerReturns : HandlerReturn(t, v)
    \/ \E t \in Threads, e \in HandlerFaults : HandlerRaise(t, e)
    \/ \E t \in Threads, sc \in BOOLEAN, l \in Levels : HandlerLog(t, sc, l)
    \/ \E t \in Threads, ok \in BOOLEAN, c \in BOOLEAN : HandlerLogReturn(t, ok, c)

LogSpec == Init /\ [][LogNext]_vars

\* the lines handlers have logged so far
HandlerLines ==
    {i \in 1..Len(host) :
        \/ host[i].target = svc.lhandler
        \/ /\ host[i].target = MFA("Elixir.Amps.PyProcess", "log")
           /\ host[i].payload[2] = PyStr(UserLine)}

\* the process has dispatches, sends or logs left in its budget of operations
OpsLeft == ndisp + Cardinality(issued) + Cardinality(HandlerLines) < MaxIds + 1

\* one Python process hosts either a Service, whose handlers send and log in
\* any order, or an Action / Endpoint that is constructed and run
FrameNext ==
    \/ /\ act.state = "none"
       /\ \/ \E p \in ServiceParms, e \in Envs : ServiceInit(p, e)
          \/ \E t \in Threads, d \in Inbound : OpsLeft /\ Receive(t, d)
          \/ \E t \in Threads, ok \in BOOLEAN : LogCallReturn(t, ok)
          \/ \E t \in Threads, v \in HandlerReturns : HandlerReturn(t, v)
          \/ \E t \in Threads, e \in HandlerFaults : HandlerRaise(t, e)
          \/ \E t \in Threads, o \in Overlays, c \in BOOLEAN :
                OpsLeft /\ SendMessage(t, o, c)
          \/ \E t \in Threads, ok \in BOOLEAN, c \in BOOLEAN : SendCallReturn(t, ok, c)
          \/ \E t \in Threads, n \in NewMsgs, c \in BOOLEAN :
                OpsLeft /\ SendNew(t, n, c)
          \/ \E t \in Threads, sc \in BOOLEAN :
                OpsLeft /\ HandlerLog(t, sc, "info")
          \/ \E t \in Threads, ok \in BOOLEAN, c \in BOOLEAN : HandlerLogReturn(t, ok, c)
    \/ /\ svc.state = "none"
       /\ ActionNext

FrameSpec == Init /\ [][FrameNext]_vars

\* two dispatch threads on the one Service instance
ConcThreads == {1, 2}

ConcInit ==
    /\ svc = NoService
    /\ issued = {}
    /\ host = <<>>
    /\ th = [t \in ConcThreads |-> IdleThread]
    /\ ndisp = 0
    /\ act = NoAction
    /\ bld = NoBuilderState

\* no other thread has been given the envelope that data parses to
DistinctEnvelope(t, data) ==
    \A u \in ConcThreads \ {t} :
        \/ th[u].pc = "idle"
        \/ th[u].inmsg # (IF json_loads(data).exc # NoExc THEN EmptyDict
                          ELSE json_loads(data).value[2])

\* the host gives each thread one envelope, different ones to different
\* threads, and the dispatches run interleaved at their blocking calls
ConcNext ==
    \/ \E p \in ServiceParms : ServiceInit(p, "prod")
    \/ \E t \in ConcThreads, d \in Inbound :
          th[t].pc = "idle" /\ DistinctEnvelope(t, d) /\ ReceiveStep(t, d)
    \/ \E t \in ConcThreads, ok \in BOOLEAN : LogCallReturn(t, ok)
    \/ \E t \in ConcThreads : HandlerReturn(t, PyStr("done"))
    \/ \E t \in ConcThreads : HandlerRaise(t, Exc("Exception", "timeout"))
    \/ \E t \in ConcThreads, o \in Overlays, c \in BOOLEAN : SendMessage(t, o, c)
    \/ \E t \in ConcThreads, ok \in BOOLEAN, c \in BOOLEAN : SendCallReturn(t, ok, c)

ConcSpec == ConcInit /\ [][ConcNext]_vars

----------------------------------------------------------------------------
(* Properties *)

\* the emissions thread t made since its latest send began
EmittedBySend(t) ==
    {i \in 1..Len(host) : i > th[t].send.before /\ host[i].by = t}

\* the envelope the latest send of thread t handed to the host, read back
\* from the serialized text in the emission
SentEnvelope(t) ==
    LET m == host[th[t].send.ix] IN
    IF th[t].send.op = "send_message"
    THEN json_loads(m.payload[1]).value[2]
    ELSE json_loads(m.payload[2]).value[2]

\* fsize of envelope e is the true size of the payload it carries
FsizeTrue(e) ==
    /\ "fsize" \in DOMAIN e
    /\ IF "data" \in DOMAIN e
       THEN e["fsize"] = PyInt(Len(e["data"][2]))
       ELSE /\ "fpath" \in DOMAIN e
            /\ e["fpath"][2] \in DOMAIN Files
            /\ e["fsize"] = PyInt(Files[e["fpath"][2]])

SendDone(t, op) == th[t].send.op = op /\ th[t].send.outcome = "returned"

\* C1: every send_message that completes hands the host an envelope with
\* exactly one of data / fpath, whose fsize is the true size of that payload.
C1_DerivedSendExactlyOnePayload ==
    \A t \in Threads :
        SendDone(t, "send_message") =>
            LET e == SentEnvelope(t) IN
            /\ ("data" \in DOMAIN e) # ("fpath" \in DOMAIN e)
            /\ FsizeTrue(e)

\* C2: an overlay with data makes send_message return a new id with no fpath
\* in the merged envelope and fsize = len(data); an overlay with fpath (and an
\* existing file) makes it return with no data and fsize = the file's size;
\* whether or not the original carried the field to clear.  (A send whose
\* host call failed is left aside.)
C2_OverlayPayloadAlwaysAccepted ==
    \A t \in Threads :
        LET s == th[t].send IN
        (s.op = "send_message" /\ s.outcome \in {"returned", "raised"}
           /\ s.exc # CallError) =>
            /\ "data" \in DOMAIN s.arg =>
                 /\ s.outcome = "returned"
                 /\ "fpath" \notin DOMAIN SentEnvelope(t)
                 /\ SentEnvelope(t)["fsize"] = PyInt(Len(s.arg["data"][2]))
            /\ ("data" \notin DOMAIN s.arg /\ "fpath" \in DOMAIN s.arg
                  /\ s.arg["fpath"][2] \in DOMAIN Files) =>
                 /\ s.outcome = "returned"
                 /\ "data" \notin DOMAIN SentEnvelope(t)
                 /\ SentEnvelope(t)["fsize"] = PyInt(Files[s.arg["fpath"][2]])

\* the msgid of the envelope in emission i, for the two kinds of send
EmittedMsgid(i) ==
    IF host[i].op = "call"
    THEN json_loads(host[i].payload[1]).value[2]["msgid"]
    ELSE json_loads(host[i].payload[2]).value[2]["msgid"]

IsSendEmission(i) ==
    host[i].target \in {MFA("Elixir.Amps.PyProcess", "send_message"), svc.handler}

\* C3: the envelope send_message sends has parent = the original's msgid and
\* msgid = the id it returns, which is neither the original's msgid nor an id
\* handed out before, also when the overlay supplies parent or msgid itself.
C3_DerivedSendLineage ==
    /\ \A t \in Threads :
        LET s == th[t].send IN
        (s.op = "send_message" /\ s.ix > 0) =>
            LET e == SentEnvelope(t) IN
            /\ e["parent"] = s.orig["msgid"]
            /\ e["msgid"] = PyStr(s.id)
            /\ e["msgid"] # s.orig["msgid"]
            /\ s.id \notin s.prior
    /\ \A i, j \in 1..Len(host) :
        (i < j /\ IsSendEmission(i) /\ IsSendEmission(j)) =>
            EmittedMsgid(i) # EmittedMsgid(j)

C3_Witness ==
    \E t \in Threads :
        /\ SendDone(t, "send_message")
        /\ "msgid" \in DOMAIN th[t].send.arg
        /\ "parent" \in DOMAIN th[t].send.arg
        /\ th[t].send.prior # {}

C5_NewSendNeverHasParent ==
    \A t \in Threads :
        SendDone(t, "send_new") =>
            /\ FsizeTrue(SentEnvelope(t))
            /\ "parent" \notin DOMAIN SentEnvelope(t)

\* C5 amended: the envelope send_new sends has fsize = len(data) when data is
\* present, otherwise the size of the file named by fpath, whatever fsize the
\* caller supplied; send_new itself adds no parent: the envelope has a parent
\* field only when the caller's envelope had one, with that same value.
C5_NewSendFsizeAndParentPassThrough ==
    \A t \in Threads :
        SendDone(t, "send_new") =>
            LET e == SentEnvelope(t)
                a == th[t].send.arg
            IN
            /\ FsizeTrue(e)
            /\ ("parent" \in DOMAIN e) <=> ("parent" \in DOMAIN a)
            /\ ("parent" \in DOMAIN e) => e["parent"] = a["parent"]

C5_Witness ==
    \E t \in Threads :
        /\ SendDone(t, "send_new")
        /\ "fsize" \in DOMAIN th[t].send.arg
        /\ "parent" \in DOMAIN SentEnvelope(t)

\* C6: send_new emits exactly one cast, to the creation handle, of the tag
\* "new" paired with the serialized envelope carrying the new msgid, and
\* returns that id without blocking: it never issues a call to the host.
C6_NewSendIsOneCast ==
    \A t \in Threads :
        LET s == th[t].send IN
        /\ s.op = "send_new" => th[t].pc # "send_call"
        /\ (s.op = "send_new" /\ s.outcome # "raised") =>
            /\ s.outcome = "returned"
            /\ EmittedBySend(t) = {s.ix}
            /\ host[s.ix].op = "cast"
            /\ host[s.ix].target = svc.handler
            /\ host[s.ix].reply = "none"
            /\ Len(host[s.ix].payload) = 2
            /\ host[s.ix].payload[1] = Atom("new")
            /\ SentEnvelope(t)["msgid"] = PyStr(s.id)
        /\ (s.op = "send_new" /\ s.outcome = "raised") => EmittedBySend(t) = {}

C6_Witness ==
    \E t \in Threads :
        /\ SendDone(t, "send_new")
        /\ "fpath" \in DOMAIN SentEnvelope(t)
        /\ th[t].pc = "handling"

\* C7: when action() raises a fault with message text m, __run__ does not
\* propagate it and returns the serialization of {"error": true, "reason": m}.
C7_FaultBecomesErrorResult ==
    (act.state \in {"ran", "run_raised"} /\ act.aout.kind = "raised") =>
        /\ act.state = "ran"
        /\ act.ret = <<"object", [error |-> <<"true">>,
                                  reason |-> <<"string", str_exc(act.aout.exc)>>]>>
        /\ act.aout.exc = Exc("Exception", "disk full") =>
             act.ret[2]["reason"] = <<"string", "disk full">>

C7_Witness ==
    /\ act.state = "ran"
    /\ act.aout = Raised(Exc("Exception", "disk full"))

\* C8: each __run__ invokes action() exactly once, also after a fault, and
\* returns the serialization of what action() returned; with action() not
\* overridden that is {"status": "completed"}.
C8_RunInvokesActionOnce ==
    /\ act.state \in {"ready", "init_raised"} => act.calls = 0
    /\ act.state \in {"ran", "run_raised"} =>
        /\ act.calls = 1
        /\ act.aout.kind = "returned" =>
             (act.state = "ran" /\ json_loads(act.ret).value = act.aout.value)
        /\ ~act.overridden =>
             act.ret = <<"object", [status |-> <<"string", "completed">>]>>

C8_Witness ==
    /\ act.state = "ran"
    /\ ~act.overridden
    /\ act.calls = 1

\* C9: every result __run__ returns contains a status field, the result for
\* a fault of action() included.
C9_ResultHasStatus ==
    act.state = "ran" => "status" \in DOMAIN json_loads(act.ret).value[2]

\* C10: __receive__ never propagates a fault: it ends with (ok, v) when
\* handle_message returned v and with (error, m) when handle_message raised a
\* fault with message text m.
C10_ReceiveTagsOutcome ==
    \A t \in Threads :
        /\ th[t].pc = "done" =>
            /\ Len(th[t].ret) = 2
            /\ th[t].ret[1] \in {Atom("ok"), Atom("error")}
            /\ th[t].hout.kind = "returned" => th[t].ret = <<Atom("ok"), th[t].hout.value>>
            /\ th[t].hout.kind = "raised" =>
                 th[t].ret = <<Atom("error"), PyStr(str_exc(th[t].hout.exc))>>
            /\ th[t].hout.exc = Exc("Exception", "timeout") =>
                 th[t].ret = <<Atom("error"), PyStr("timeout")>>
        /\ th[t].hout.kind # "none" => th[t].pc = "done"

C10_Witness ==
    \E t \in Threads :
        /\ th[t].pc = "done"
        /\ th[t].hout = Raised(Exc("Exception", "timeout"))
        /\ th[t].ret[1] = Atom("error")

\* emission i is the informational line __receive__ logs for thread t
IsReceiveLine(t, i) ==
    /\ host[i].by = t
    /\ host[i].target = MFA("Elixir.Amps.PyProcess", "log")
    /\ host[i].payload[1] = Atom("info")
    /\ host[i].payload[2] = PyStr("Message received by Custom Service "
                                    \o svc.parms["name"][2])

\* C11: for every inbound envelope, with or without a sid, __receive__ logs
\* one informational line naming the service and then invokes handle_message
\* exactly once.  (A service configured without a name and a dispatch ended
\* by a failed host call are left aside.)
C11_EveryEnvelopeIsHandled ==
    \A t \in Threads :
        (th[t].pc = "done" /\ "msgid" \in DOMAIN th[t].inmsg
           /\ "name" \in DOMAIN svc.parms /\ th[t].ret # ReceiveError(CallError)) =>
            /\ th[t].hm = 1
            /\ \E i \in 1..Len(host) : IsReceiveLine(t, i)

\* C12: a failure of the host transport during Logger.log is swallowed: the
\* log call does not raise to its caller, and a failed informational line in
\* __receive__ does not stop handle_message from being invoked.
C12_LogFailureIsSwallowed ==
    \A t \in Threads :
        /\ th[t].log.outcome # "raised"
        /\ (th[t].pc = "done"
              /\ \E i \in 1..Len(host) : IsReceiveLine(t, i) /\ host[i].reply = "error") =>
            th[t].hm = 1

\* C13: constructing a Service runs initialize() exactly once, after parms,
\* sysparms, config, env, logger and the three handles are stored and before
\* any dispatch or send on the instance; no later operation runs it again.
C13_InitializeOnceAtConstruction ==
    /\ svc.state = "none" => (ndisp = 0 /\ host = <<>> /\ issued = {})
    /\ svc.state # "none" =>
        /\ svc.initialized = 1
        /\ svc.initSaw = {"parms", "sysparms", "config", "env", "logger",
                          "__pid__", "__handler__", "__lhandler__"}
    /\ (ndisp > 0 \/ host # <<>> \/ issued # {}) => svc.state = "ready"

C13_Witness ==
    /\ svc.state = "ready"
    /\ svc.initialized = 1
    /\ \E t \in Threads : SendDone(t, "send_new") /\ th[t].send.prior # {}

\* C14: Action/Endpoint construction always completes, and it populates
\* `provider` if and only if parms.use_provider is truthy (an absent flag
\* leaves provider unpopulated).
C14_ProviderIffUseProviderTruthy ==
    act.state # "none" =>
        LET parms == act.attrs["parms"][2] IN
        /\ act.state # "init_raised"
        /\ "provider" \in DOMAIN act.attrs <=>
             ("use_provider" \in DOMAIN parms /\ Truthy(parms["use_provider"]))

\* C15: while handling one inbound envelope, a send_message issued after
\* earlier sends on the same original completes just as a first one would: if
\* the inbound envelope carried the payload key the overlay replaces, the call
\* does not fail for want of that key.
C15_SuccessiveSendsComplete ==
    \A t \in Threads :
        LET s == th[t].send
            key == IF "data" \in DOMAIN s.arg THEN "fpath" ELSE "data"
        IN
        (/\ s.op = "send_message"
         /\ s.prior # {}
         /\ {"data", "fpath"} \cap DOMAIN s.arg # {}
         /\ key \in DOMAIN th[t].inmsg)
        => s.exc # Exc("KeyError", key)

\* what the host received from thread t since its latest handler log began
EmittedByLog(t) ==
    {i \in 1..Len(host) : i > th[t].log.before /\ host[i].by = t}

\* C16: a log through a logger built with a service context emits exactly one
\* cast to that service's log handle carrying (level, message) and no call; a
\* log through a logger built without one emits exactly one call to the global
\* entry point carrying level, message and the (sid, <session id>) pair and no
\* cast. The transport depends only on how the logger was constructed.
C16_LogUsesOneTransport ==
    /\ \A t \in Threads :
        LET l == th[t].log IN
        l.outcome # "none" =>
            /\ EmittedByLog(t) = {l.ix}
            /\ LET m == host[l.ix] IN
               IF l.logger.service
               THEN /\ m.op = "cast"
                    /\ m.target = svc.lhandler
                    /\ m.payload = <<Atom("log"), <<Atom(l.level), PyStr(l.message)>>>>
               ELSE /\ m.op = "call"
                    /\ m.target = MFA("Elixir.Amps.PyProcess", "log")
                    /\ m.payload = <<Atom(l.level), PyStr(l.message),
                                     << <<Atom("sid"), l.logger.sid>> >> >>
    /\ \A i \in 1..Len(host) :
        IF host[i].op = "cast"
        THEN host[i].target = svc.lhandler
        ELSE /\ host[i].target = MFA("Elixir.Amps.PyProcess", "log")
             /\ \E d \in Inbound \ {JsonMalformed} :
                  /\ "sid" \in DOMAIN json_loads(d).value[2]
                  /\ host[i].payload[3] =
                       << <<Atom("sid"), json_loads(d).value[2]["sid"]>> >>
             /\ host[i].reply = "pending" =>
                  host[i].payload[3] = << <<Atom("sid"), th[host[i].by].hlogger.sid>> >>

C16_Witness ==
    /\ \E t \in Threads :
        /\ th[t].log.outcome = "returned"
        /\ th[t].log.logger.service
        /\ host[th[t].log.ix].op = "cast"
    /\ \E i \in 1..Len(host) : host[i].op = "call" /\ host[i].reply = "ok"

\* the payload key of the original that send_message clears for overlay o
ClearedKey(o) ==
    IF "data" \in DOMAIN o THEN {"fpath"}
    ELSE IF "fpath" \in DOMAIN o THEN {"data"}
    ELSE {}

\* the keys send_message writes into the overlay itself
WrittenKeys(o) ==
    {"parent", "msgid"} \cup (IF ClearedKey(o) = {} THEN {} ELSE {"fsize"})

\* C17: in the envelope send_message sends, every field of the original other
\* than the cleared payload field is present; it has the overlay's value when
\* the overlay (as passed, or as send_message completed it) has that key, and
\* the original's value otherwise.
C17_OverlayWinsNothingDropped ==
    \A t \in Threads :
        LET s == th[t].send IN
        (s.op = "send_message" /\ s.ix # 0) =>
            LET e == SentEnvelope(t) IN
            \A k \in DOMAIN s.orig \ ClearedKey(s.arg) :
                /\ k \in DOMAIN e
                /\ k \notin WrittenKeys(s.arg) =>
                     e[k] = IF k \in DOMAIN s.arg THEN s.arg[k] ELSE s.orig[k]
                /\ k = "msgid" => e[k] = PyStr(s.id)

C17_Witness ==
    \E t \in Threads :
        LET s == th[t].send IN
        /\ SendDone(t, "send_message")
        /\ "partner" \in DOMAIN s.orig /\ "partner" \in DOMAIN s.arg
        /\ s.orig["partner"] # s.arg["partner"]
        /\ SentEnvelope(t)["partner"] = s.arg["partner"]
        /\ SentEnvelope(t)["sid"] = s.orig["sid"]

\* C18: once a Service is constructed, no receive, send_message, send_new or
\* log step changes its parms, config, sysparms, env or its three host
\* handles; once an Action is constructed, run() leaves its parms, sysparms
\* and extra as they were.
C18_OperationsLeaveConfigurationAlone ==
    [][/\ svc.state = "ready" =>
            /\ svc'.state = "ready"
            /\ svc'.parms = svc.parms /\ svc'.config = svc.config
            /\ svc'.sysparms = svc.sysparms /\ svc'.env = svc.env
            /\ svc'.pid = svc.pid /\ svc'.handler = svc.handler
            /\ svc'.lhandler = svc.lhandler
       /\ act.state = "ready" =>
            /\ act'.attrs["parms"] = act.attrs["parms"]
            /\ act'.attrs["sysparms"] = act.attrs["sysparms"]
            /\ act'.attrs["extra"] = act.attrs["extra"]]_vars

C18_Witness ==
    \E t \in Threads :
        /\ th[t].pc = "done"
        /\ SendDone(t, "send_message")
        /\ th[t].log.outcome = "returned"
        /\ svc.state = "ready"
        /\ svc.config = svc.parms["config"]

----------------------------------------------------------------------------
(* Calls of the static Result builders *)

Builders ==
    {"send_async", "send_status", "send_file", "send_data", "send_error",
     "send_resp_data", "send_resp_file"}

\* the builders that take `meta`
MetaBuilders == {"send_file", "send_data"}

\* argument lists a caller passes; meta is "omitted" (the default object is
\* used) or "held" (the caller's own dict object is passed)
BuilderArgs(b) ==
    CASE b = "send_async" ->
           {[status |-> PyStr("completed"), key |-> "reply", data |-> PyStr("later")]}
      [] b = "send_status" ->
           {[status |-> PyStr("completed"), reason |-> PyNone],
            [status |-> PyStr("failed"), reason |-> PyStr("no route")]}
      [] b = "send_file" ->
           {[status |-> PyStr("completed"), fpath |-> PyStr(f), meta |-> m] :
               f \in {"/tmp/out.txt", "/gone"}, m \in {"omitted", "held"}}
      [] b = "send_data" ->
           {[status |-> PyStr("completed"), data |-> PyStr("hello"), meta |-> m] :
               m \in {"omitted", "held"}}
      [] b = "send_error" -> {[reason |-> PyStr("bad input")]}
      [] b = "send_resp_data" -> {[data |-> PyStr("missing"), code |-> PyInt(404)]}
      [] b = "send_resp_file" -> {[fpath |-> PyStr("/x"), code |-> PyInt(200)]}

\* the dict object bound to the parameter `meta` in the call b(a)
MetaArg(b, a, st) == IF a.meta = "omitted" THEN st.shared[b] ELSE st.held

\* the outcome of the call b(a) with `meta` bound to the object meta
BuilderOutcome(b, a, meta) ==
    CASE b = "send_async" -> send_async(a.status, a.key, a.data)
      [] b = "send_status" -> send_status(a.status, a.reason)
      [] b = "send_file" -> send_file(a.status, a.fpath, meta)
      [] b = "send_data" -> send_data(a.status, a.data, meta)
      [] b = "send_error" -> send_error(a.reason)
      [] b = "send_resp_data" -> send_resp_data(a.data, a.code)
      [] b = "send_resp_file" -> send_resp_file(a.fpath, a.code)

\* a variant that merges in place: meta.update(...) and the result's msg is meta
MetaAfterUpdatedInPlace(b, a, meta) ==
    IF b = "send_data" THEN Put(meta, "data", a.data) ELSE Put(meta, "fpath", a.fpath)

\* the object bound to `meta` after the call: lines 294 and 320 merge it into
\* a new dict ({**{...}, **meta}) and assign nothing into it
MetaAfter(b, a, meta) == meta

\* one call of a builder
BuilderCall(b, a) ==
    /\ Len(bld.calls) < MaxCalls
    /\ IF b \in MetaBuilders
       THEN LET meta == MetaArg(b, a, bld)
                out == BuilderOutcome(b, a, meta)
                after == IF out.kind = "returned" THEN MetaAfter(b, a, meta) ELSE meta
            IN bld' = [shared |-> IF a.meta = "omitted"
                                  THEN [bld.shared EXCEPT ![b] = after]
                                  ELSE bld.shared,
                       held |-> IF a.meta = "held" THEN after ELSE bld.held,
                       calls |-> Append(bld.calls, [b |-> b, a |-> a, out |-> out])]
       ELSE bld' = [bld EXCEPT !.calls =
                       Append(@, [b |-> b, a |-> a, out |-> BuilderOutcome(b, a, EmptyDict)])]
    /\ UNCHANGED <<svc, issued, host, th, ndisp, act>>

BuilderNext == \E b \in Builders : \E a \in BuilderArgs(b) : BuilderCall(b, a)

BuilderSpec == Init /\ [][BuilderNext]_vars

\* C19: two calls of a Result builder with identical arguments yield identical
\* results (return value or exception), and no call changes the dict passed as
\* `meta` or the default `meta` objects shared between calls.
C19_BuildersRepeatableAndPure ==
    /\ \A i, j \in 1..Len(bld.calls) :
        (bld.calls[i].b = bld.calls[j].b /\ bld.calls[i].a = bld.calls[j].a)
            => bld.calls[i].out = bld.calls[j].out
    /\ bld.held = CallerMeta
    /\ \A b \in MetaBuilders : bld.shared[b] = EmptyDict

C19_Witness ==
    /\ Len(bld.calls) >= 2
    /\ bld.calls[1] = bld.calls[2]
    /\ bld.calls[1].b = "send_data"
    /\ bld.calls[1].a.meta = "omitted"
    /\ bld.calls[1].out.kind = "returned"

\* C20: send_message leaves the original's msgid as it was, and the only change
\* it makes to the original envelope object is removing the payload key
\* opposite to the overlay's (`fpath` for an overlay with data, `data` for one
\* with only fpath); with neither in the overlay the original is unchanged.
C20_OriginalOnlyLosesOppositePayload ==
    \A t \in Threads :
        LET s == th[t].send
            cleared == ClearedKey(s.arg)
        IN
        s.op = "send_message" =>
            /\ "msgid" \in DOMAIN s.orig =>
                 ("msgid" \in DOMAIN th[t].msg /\ th[t].msg["msgid"] = s.orig["msgid"])
            /\ \A k \in DOMAIN s.orig \ cleared :
                 k \in DOMAIN th[t].msg /\ th[t].msg[k] = s.orig[k]
            /\ DOMAIN th[t].msg \subseteq DOMAIN s.orig
            /\ s.ix # 0 => DOMAIN th[t].msg = DOMAIN s.orig \ cleared

C20_Witness ==
    \E t \in Threads :
        LET s == th[t].send IN
        /\ SendDone(t, "send_message")
        /\ "data" \in DOMAIN s.arg
        /\ "fpath" \in DOMAIN s.orig
        /\ th[t].msg = Del(s.orig, "fpath")
        /\ th[t].msg["msgid"] = s.orig["msgid"]

\* the file named by the fpath of envelope e is missing
FileMissing(e) == "fpath" \in DOMAIN e /\ e["fpath"][2] \notin DOMAIN Files

\* the send recorded in s is one the claim C21 speaks of: it cannot get as far
\* as its emission
FailsBeforeDispatch(s) ==
    \/ /\ s.op = "send_message"
       /\ "msgid" \in DOMAIN s.orig
       /\ \/ "data" \notin DOMAIN s.arg /\ FileMissing(s.arg)
          \/ \E k \in ClearedKey(s.arg) : k \notin DOMAIN s.orig
    \/ /\ s.op = "send_new"
       /\ "data" \notin DOMAIN s.arg
       /\ "fpath" \notin DOMAIN s.arg \/ FileMissing(s.arg)

OwnPrologueFault(t) ==
    IF th[t].inmsg = EmptyDict THEN json_loads(JsonMalformed).exc
    ELSE IF "sid" \notin DOMAIN th[t].inmsg THEN Exc("KeyError", "sid")
    ELSE IF "name" \notin DOMAIN svc.parms THEN Exc("KeyError", "name")
    ELSE CallError

\* the tagged pair a finished dispatch of thread t owes to its own envelope
\* and its own handle_message outcome
OwnResult(t) ==
    CASE th[t].hout.kind = "returned" -> <<Atom("ok"), th[t].hout.value>>
      [] th[t].hout.kind = "raised" -> <<Atom("error"), PyStr(str_exc(th[t].hout.exc))>>
      [] OTHER -> <<Atom("error"), PyStr(str_exc(OwnPrologueFault(t)))>>

\* C22: with dispatches of distinct envelopes interleaved on one Service, each
\* finished dispatch returns the pair fixed by its own envelope and its own
\* handle_message outcome, whatever the other dispatch did, and every envelope
\* send_message emits has as parent the msgid of the envelope of the dispatch
\* that issued it.
C22_DispatchesDoNotInterfere ==
    /\ \A t \in ConcThreads :
        /\ th[t].pc = "done" => th[t].ret = OwnResult(t)
        /\ th[t].send.op = "send_message" =>
             /\ "msgid" \in DOMAIN th[t].send.orig
             /\ th[t].send.orig["msgid"] = th[t].inmsg["msgid"]
    /\ \A i \in 1..Len(host) :
        host[i].target = MFA("Elixir.Amps.PyProcess", "send_message") =>
            LET e == json_loads(host[i].payload[1]).value[2] IN
            /\ e["parent"] = th[host[i].by].inmsg["msgid"]
            /\ \A u \in ConcThreads \ {host[i].by} :
                 th[u].pc # "idle" => e # th[u].inmsg

C22_Witness ==
    /\ th[1].pc = "done" /\ th[1].hout.kind = "raised"
    /\ th[2].pc = "done" /\ th[2].hout.kind = "returned"
    /\ th[1].inmsg["msgid"] # th[2].inmsg["msgid"]
    /\ \E i, j, k \in 1..Len(host) :
        /\ i < j /\ j < k
        /\ host[i].by = 1 /\ host[j].by = 2 /\ host[k].by = 1
        /\ host[k].target = MFA("Elixir.Amps.PyProcess", "send_message")
    /\ \E j \in 1..Len(host) :
        /\ host[j].by = 2
        /\ host[j].target = MFA("Elixir.Amps.PyProcess", "send_message")

====
